---- MODULE Spec2Model ----
(***************************************************************************)
(* The posting engine of payment-ledger (ledger router): accounts, ledger  *)
(* entries, event intake, manual posting, reversal and account edits.      *)
(*                                                                         *)
(* Storage is the three Mongo collections (accounts, entries, events).     *)
(* Every request handler is an async function: it runs atomically between  *)
(* two awaits, and each awaited storage call takes effect atomically.  A   *)
(* handler in flight is a process (proc[p]) whose pc names the storage     *)
(* call it is about to make; one action = that storage call's effect plus  *)
(* the synchronous code that follows it up to the next storage call.       *)
(*                                                                         *)
(* Amounts are in thousandths of a currency unit (0.001 = 1), exchange     *)
(* rates are the fraction rates[to] / rates[from] with the rate table in   *)
(* hundredths (0.92 = 92); the payloads are chosen so that every product   *)
(* is exact.                                                               *)
(***************************************************************************)
EXTENDS Integers, Sequences, FiniteSets, TLC

VARIABLES
    accounts,      \* Account collection: account_id = position
    entries,       \* LedgerEntry collection: entry_id = position
    events,        \* number of documents in the Event collection
    ledgerConfig,  \* the in-memory configuration snapshot
    proc,          \* request handlers in flight: their position and locals
    reqs,          \* number of requests received so far; request n generates
                   \* the fresh entryGroupId n (uuidv4)
    applied,       \* history: per account, the sum of the signed amounts that
                   \* updateAccountBalance calls have written to it
    reversed,      \* history: the entry groups whose reversal request has
                   \* completed with success
    edited         \* history: whether an account edit has changed the nature
                   \* or the currency of an account

vars == <<accounts, entries, events, ledgerConfig, proc, reqs, applied, reversed,
          edited>>

-----------------------------------------------------------------------------
(* Bounds *)

\* request handlers that may be in flight at once
NProc == 2
\* requests received in the posting scenario (Spec)
MaxPostings == 2
\* requests received in the reversal scenario (SpecReversal)
MaxReq == 3

Procs == 1..NProc

-----------------------------------------------------------------------------
(* Configuration: defaultConfig *)

defaultConfig ==
    [ rates   |-> ("USD" :> 100) @@ ("EUR" :> 92),
      fx_fees |-> (<<"USD", "EUR">> :> 1) @@ (<<"EUR", "USD">> :> 1),
      transaction_fees |-> [account_name |-> <<"Transaction Fee Revenue">>,
                            account_type |-> "Revenue", nature |-> "Credit"],
      fx_fee_account   |-> [account_name |-> <<"FX Fee Revenue">>,
                            account_type |-> "Revenue", nature |-> "Credit"],
      payment_processing |-> 30 ]

\* Math.abs(totalDebits - totalCredits) > 0.001
Tolerance == 1

-----------------------------------------------------------------------------
(* Rate table *)

\* the value that stands for the thrown "Exchange rate not available"
NoRate == <<0, 0>>

\* !rates[c]: the currency is absent from the map, or its rate is 0
RateMissing(cfg, c) == c \notin DOMAIN cfg.rates \/ cfg.rates[c] = 0

getExchangeRateInverse(cfg, fromCurrency, toCurrency) ==
    IF fromCurrency = toCurrency THEN <<1, 1>>
    ELSE IF RateMissing(cfg, fromCurrency) \/ RateMissing(cfg, toCurrency) THEN NoRate
    ELSE <<cfg.rates[fromCurrency], cfg.rates[toCurrency]>>

\* the rate as the fraction <<numerator, denominator>>
getExchangeRate(cfg, fromCurrency, toCurrency) ==
    IF fromCurrency = toCurrency THEN <<1, 1>>
    ELSE IF RateMissing(cfg, fromCurrency) \/ RateMissing(cfg, toCurrency) THEN NoRate
    ELSE <<cfg.rates[toCurrency], cfg.rates[fromCurrency]>>

TimesOne(amount, rate) == amount

\* amount * rate
Times(amount, rate) == (amount * rate[1]) \div rate[2]

fxFeeRateNone(cfg, source, settlement) == 0

\* ledgerConfig.fx_fees[source]?.[settlement] || 0, in hundredths
fxFeeRate(cfg, source, settlement) ==
    IF <<source, settlement>> \in DOMAIN cfg.fx_fees
    THEN cfg.fx_fees[<<source, settlement>>] ELSE 0

-----------------------------------------------------------------------------
(* Sequences helpers *)

RECURSIVE SumSeq(_)
SumSeq(s) == IF s = <<>> THEN 0 ELSE Head(s) + SumSeq(Tail(s))

RECURSIVE Ascending(_)
\* the members of a finite set of integers as an ascending list
Ascending(S) ==
    IF S = {} THEN <<>>
    ELSE LET m == CHOOSE x \in S : \A y \in S : x <= y
         IN <<m>> \o Ascending(S \ {m})

Abs(x) == IF x < 0 THEN -x ELSE x

\* the total of the amounts of the items of the list with the given entry type
TotalOf(list, type) ==
    SumSeq([i \in 1..Len(list) |->
              IF list[i].entry_type = type THEN list[i].amount ELSE 0])

NeverNotBalanced(list) == FALSE

\* the balance gate: Math.abs(totalDebits - totalCredits) > 0.001 throws
NotBalanced(list) == Abs(TotalOf(list, "Debit") - TotalOf(list, "Credit")) > Tolerance

-----------------------------------------------------------------------------
(* Posting rules: the synchronous part of executeActions *)

\* one proposed ledger entry; account_id is filled in by findOrCreateAccount
\* (event posting) or given (manual posting, reversal), event_id is the
\* event's (event posting) or the original entry's (reversal).  Of the
\* description only the client's (manual posting) is kept: the descriptions
\* the rules and the reversal write ("Funds received ...", "Reversal of
\* entry ...") are never "Discrepancy adjustment" and stand as ""
Item(tag, name, type, amount, currency) ==
    [tag |-> tag, name |-> name, account_id |-> 0, entry_type |-> type,
     amount |-> amount, currency |-> currency, event_id |-> 0, originalEntryId |-> 0,
     description |-> ""]

Rejected(err) == [err |-> err, plan |-> <<>>]
Proposed(plan) == [err |-> "", plan |-> plan]

\* case 'PaymentCaptured' up to the first findOrCreateAccount
PaymentCaptured(cfg, payload) ==
    LET sourceCurrency     == payload.currency
        settlementCurrency == IF payload.settlementCurrency = "" THEN sourceCurrency
                              ELSE payload.settlementCurrency
        convert      == sourceCurrency # settlementCurrency
        exchangeRate == getExchangeRate(cfg, sourceCurrency, settlementCurrency)
        total == IF convert THEN Times(payload.amount, exchangeRate) ELSE payload.amount
        fee   == IF convert THEN Times(payload.transactionFee, exchangeRate)
                 ELSE payload.transactionFee
        fxFee == IF convert
                 THEN (payload.amount * fxFeeRate(cfg, sourceCurrency, settlementCurrency)
                          * exchangeRate[1]) \div (100 * exchangeRate[2])
                 ELSE 0
    IN  IF payload.amount = 0 \/ payload.currency = "" \/ payload.merchantId = ""
           \/ ~payload.hasFee
        THEN Rejected("ValidationError")
        ELSE IF convert /\ exchangeRate = NoRate THEN Rejected("ExchangeRateUnavailable")
        ELSE Proposed(
            << Item("cash", <<"Cash", settlementCurrency>>, "Debit", total,
                    settlementCurrency),
               Item("payable", <<"Merchant Payable", payload.merchantId>>, "Credit",
                    total - fee - fxFee, settlementCurrency),
               Item("txfee", <<>>, "Credit", fee, settlementCurrency) >>
            \o (IF fxFee > 0
                THEN << Item("fxfee", <<>>, "Credit", fxFee, settlementCurrency) >>
                ELSE <<>>))

\* the two entries of a refund
RefundEntries(payload, amount) ==
    << Item("payable", <<"Merchant Payable", payload.merchantId>>, "Debit", amount,
            payload.currency),
       Item("cash", <<"Cash", payload.currency>>, "Credit", amount, payload.currency) >>

\* case 'PaymentRefunded' up to the first findOrCreateAccount
PaymentRefunded(payload) ==
    IF payload.amount = 0 \/ payload.currency = "" \/ payload.merchantId = ""
    THEN Rejected("ValidationError")
    ELSE Proposed(RefundEntries(payload, payload.amount))

PaymentPartiallyRefundedAnyAmount(payload) ==
    IF payload.originalAmount = 0 \/ payload.refundAmount = 0 \/ payload.currency = ""
       \/ payload.merchantId = ""
    THEN Rejected("ValidationError")
    ELSE Proposed(RefundEntries(payload, payload.refundAmount))

\* case 'PaymentPartiallyRefunded' up to the first findOrCreateAccount
PaymentPartiallyRefunded(payload) ==
    IF payload.originalAmount = 0 \/ payload.refundAmount = 0 \/ payload.currency = ""
       \/ payload.merchantId = ""
    THEN Rejected("ValidationError")
    ELSE IF payload.refundAmount > payload.originalAmount
    THEN Rejected("RefundExceedsOriginal")
    ELSE Proposed(RefundEntries(payload, payload.refundAmount))

\* switch (eventType)
Evaluate(cfg, payload) ==
    CASE payload.type = "PaymentCaptured" -> PaymentCaptured(cfg, payload)
      [] payload.type = "PaymentRefunded" -> PaymentRefunded(payload)
      [] payload.type = "PaymentPartiallyRefunded" -> PaymentPartiallyRefunded(payload)
      [] OTHER -> Rejected("UnsupportedEventType")

InsufficientFundsUnchecked(kind, item, balance) == FALSE

\* the refund rules' check of the Merchant Payable account they have just resolved
InsufficientFunds(kind, item, balance) ==
    /\ kind \in {"PaymentRefunded", "PaymentPartiallyRefunded"}
    /\ item.tag = "payable"
    /\ balance < item.amount

\* the criteria a rule hands to findOrCreateAccount for a proposed entry
Criteria(cfg, item) ==
    CASE item.tag = "cash" ->
           [account_name |-> item.name, currency |-> item.currency,
            account_type |-> "Asset", nature |-> "Debit"]
      [] item.tag = "payable" ->
           [account_name |-> item.name, currency |-> item.currency,
            account_type |-> "Liability", nature |-> "Credit"]
      [] item.tag = "txfee" ->
           [account_name |-> cfg.transaction_fees.account_name, currency |-> item.currency,
            account_type |-> cfg.transaction_fees.account_type,
            nature |-> cfg.transaction_fees.nature]
      [] item.tag = "fxfee" ->
           [account_name |-> cfg.fx_fee_account.account_name, currency |-> item.currency,
            account_type |-> cfg.fx_fee_account.account_type,
            nature |-> cfg.fx_fee_account.nature]

-----------------------------------------------------------------------------
(* Storage queries *)

\* Account.findOne({account_name, currency}): the first match in natural
\* (insertion) order, 0 when there is none
FindByName(accs, name, currency) ==
    LET hits == {a \in DOMAIN accs : accs[a].account_name = name
                                      /\ accs[a].currency = currency}
    IN  IF hits = {} THEN 0 ELSE CHOOSE a \in hits : \A b \in hits : a <= b

\* the place of a LedgerEntry document that deleteMany has removed: entry ids
\* are positions, so the removed document leaves its place empty (no query by
\* group, account or description matches it)
NoEntry ==
    [entryGroupId |-> 0, event_id |-> 0, account_id |-> 0, entry_type |-> "",
     amount |-> 0, currency |-> "", isReversal |-> FALSE, isReversed |-> FALSE,
     originalEntryId |-> 0, description |-> ""]

\* LedgerEntry.find({entryGroupId}): the entry ids of the group
FindGroup(ents, g) == Ascending({e \in DOMAIN ents : ents[e].entryGroupId = g})

balanceChangeUnsigned(nature, entryType, amount) == amount

\* updateAccountBalance: the signed change of the balance
balanceChange(nature, entryType, amount) ==
    IF nature = entryType THEN amount ELSE -amount

-----------------------------------------------------------------------------
(* Request handlers *)

NoPayload ==
    [type |-> "", amount |-> 0, currency |-> "", settlementCurrency |-> "",
     merchantId |-> "", hasFee |-> FALSE, transactionFee |-> 0,
     originalAmount |-> 0, refundAmount |-> 0]

NoCriteria == [account_name |-> <<>>, currency |-> "", account_type |-> "", nature |-> ""]

\* the locals of a handler.  The last five are history: whether the request
\* has written to storage, how many balance updates it has made, the balance
\* of the Merchant Payable document a refund rule checked, whether a
\* reversal request arrived after a reversal of its group had succeeded, and
\* the configuration snapshots from which the handler has taken a rate, an
\* FX fee or an account default
Idle ==
    [op |-> "idle", pc |-> "idle", kind |-> "", payload |-> NoPayload, plan |-> <<>>,
     k |-> 0, group |-> 0,
     event_id |-> 0, crit |-> NoCriteria, newBalance |-> 0, change |-> 0, origs |-> <<>>,
     target |-> 0, result |-> "",
     wrote |-> FALSE, nApplied |-> 0, seen |-> 0, late |-> FALSE, used |-> {}]

Free(p) == proc[p].pc \in {"idle", "done"}

\* a request is handled in the first free slot (the slots are interchangeable)
Accepts(p) ==
    /\ Free(p)
    /\ \A q \in Procs : q < p => ~Free(q)

\* the handler responds: res.status(...).json(...)
Respond(l, result) == [l EXCEPT !.pc = "done", !.result = result]

\* executeActions after findOrCreateAccount has returned the account of
\* proposed entry l.k (its id and the balance of the returned document)
AfterResolve(l, id, balance) ==
    LET plan == [l.plan EXCEPT ![l.k].account_id = id]
        m    == [l EXCEPT !.plan = plan, !.crit = NoCriteria,
                          !.seen = IF l.plan[l.k].tag = "payable" THEN balance ELSE @]
    IN  IF InsufficientFunds(l.kind, l.plan[l.k], balance)
        THEN Respond(m, "InsufficientFunds")
        ELSE IF l.k < Len(l.plan) THEN [m EXCEPT !.k = l.k + 1, !.pc = "resolve"]
        ELSE IF NotBalanced(plan) THEN Respond(m, "ImbalanceError")
        ELSE [m EXCEPT !.k = 1, !.pc = "save"]

\* whether case 'PaymentCaptured' reads the rate table and the FX fee table:
\* the payload is complete and its settlement currency is another currency
ReadsRates(payload) ==
    /\ payload.type = "PaymentCaptured"
    /\ payload.amount # 0 /\ payload.currency # "" /\ payload.merchantId # ""
    /\ payload.hasFee
    /\ payload.settlementCurrency \notin {"", payload.currency}

\* POST /events: event.save(), then executeActions up to its first storage call
PostEvent(p, payload) ==
    /\ Accepts(p)
    /\ reqs' = reqs + 1
    /\ events' = events + 1
    /\ LET ev == Evaluate(ledgerConfig, payload)
           l  == [Idle EXCEPT !.op = "event", !.kind = payload.type,
                              !.payload = payload, !.group = reqs + 1,
                              !.event_id = events + 1, !.wrote = TRUE,
                              !.used = IF ReadsRates(payload) THEN {ledgerConfig}
                                       ELSE {}]
       IN  proc' = [proc EXCEPT ![p] =
                      IF ev.err # "" THEN Respond(l, ev.err)
                      ELSE [l EXCEPT !.k = 1, !.pc = "resolve",
                                     !.plan = [i \in 1..Len(ev.plan) |->
                                        [ev.plan[i] EXCEPT !.event_id = events + 1]]]]
    /\ UNCHANGED <<accounts, entries, ledgerConfig, applied, reversed, edited>>

\* findOrCreateAccount: Account.findOne({account_name, currency})
Resolve(p) ==
    LET l    == proc[p]
        crit == Criteria(ledgerConfig, l.plan[l.k])
        hit  == FindByName(accounts, crit.account_name, crit.currency)
        m    == [l EXCEPT !.used = IF l.plan[l.k].tag \in {"txfee", "fxfee"}
                                     THEN @ \cup {ledgerConfig} ELSE @]
    IN  /\ l.pc = "resolve"
        /\ proc' = [proc EXCEPT ![p] =
                      IF hit # 0 THEN AfterResolve(m, hit, accounts[hit].balance)
                      ELSE [m EXCEPT !.pc = "create", !.crit = crit]]
        /\ UNCHANGED <<accounts, entries, events, ledgerConfig, reqs, applied, reversed,
                       edited>>

\* findOrCreateAccount: no account was found; account.save() of a new one
Create(p) ==
    LET l == proc[p]
    IN  /\ l.pc = "create"
        /\ accounts' = Append(accounts,
                          [account_name |-> l.crit.account_name,
                           currency |-> l.crit.currency,
                           account_type |-> l.crit.account_type,
                           nature |-> l.crit.nature,
                           balance |-> 0, status |-> "Active"])
        /\ applied' = Append(applied, 0)
        /\ proc' = [proc EXCEPT ![p] =
                      AfterResolve([l EXCEPT !.wrote = TRUE], Len(accounts) + 1, 0)]
        /\ UNCHANGED <<entries, events, ledgerConfig, reqs, reversed, edited>>

\* the save loops of executeActions, POST /accounting-entries and the reversal:
\* ledgerEntry.save()
SaveEntry(p) ==
    LET l    == proc[p]
        item == l.plan[l.k]
    IN  /\ l.pc = "save"
        /\ entries' = Append(entries,
                         [entryGroupId |-> l.group, event_id |-> item.event_id,
                          account_id |-> item.account_id,
                          entry_type |-> item.entry_type,
                          amount |-> item.amount, currency |-> item.currency,
                          isReversal |-> (l.op = "reverse"), isReversed |-> FALSE,
                          originalEntryId |-> item.originalEntryId,
                          description |-> item.description])
        /\ proc' = [proc EXCEPT ![p] = [l EXCEPT !.pc = "find", !.wrote = TRUE]]
        /\ UNCHANGED <<accounts, events, ledgerConfig, reqs, applied, reversed, edited>>

FindAccountAnyCurrency(p) ==
    LET l    == proc[p]
        item == l.plan[l.k]
        a    == item.account_id
    IN  /\ l.pc = "find"
        /\ proc' = [proc EXCEPT ![p] =
                      IF a \notin DOMAIN accounts THEN Respond(l, "AccountNotFound")
                      ELSE LET c == balanceChange(accounts[a].nature, item.entry_type,
                                                  item.amount)
                           IN [l EXCEPT !.pc = "write", !.change = c,
                                        !.newBalance = accounts[a].balance + c]]
        /\ UNCHANGED <<accounts, entries, events, ledgerConfig, reqs, applied, reversed,
                       edited>>

\* updateAccountBalance: Account.findOne({account_id}), the two checks and the
\* new balance computed from the document read
FindAccount(p) ==
    LET l    == proc[p]
        item == l.plan[l.k]
        a    == item.account_id
    IN  /\ l.pc = "find"
        /\ proc' = [proc EXCEPT ![p] =
                      IF a \notin DOMAIN accounts THEN Respond(l, "AccountNotFound")
                      ELSE IF accounts[a].currency # item.currency
                      THEN Respond(l, "CurrencyMismatch")
                      ELSE LET c == balanceChange(accounts[a].nature, item.entry_type,
                                                  item.amount)
                           IN [l EXCEPT !.pc = "write", !.change = c,
                                        !.newBalance = accounts[a].balance + c]]
        /\ UNCHANGED <<accounts, entries, events, ledgerConfig, reqs, applied, reversed,
                       edited>>

WriteBalanceEveryAccount(p) ==
    LET l == proc[p]
        a == l.plan[l.k].account_id
        last == l.k = Len(l.plan)
    IN  /\ l.pc = "write"
        /\ accounts' = [b \in DOMAIN accounts |->
                          [accounts[b] EXCEPT !.balance = l.newBalance]]
        /\ applied' = [applied EXCEPT ![a] = @ + l.change]
        /\ proc' = [proc EXCEPT ![p] =
                      LET m == [l EXCEPT !.nApplied = @ + 1, !.change = 0,
                                         !.newBalance = 0]
                      IN IF last THEN Respond(m, "ok")
                         ELSE [m EXCEPT !.k = l.k + 1, !.pc = "save"]]
        /\ reversed' = IF last /\ l.op = "reverse" THEN reversed \cup {l.target}
                       ELSE reversed
        /\ UNCHANGED <<entries, events, ledgerConfig, reqs, edited>>

\* updateAccountBalance: account.save() writes the balance computed from the
\* document read; then the loop goes on or the handler responds
WriteBalance(p) ==
    LET l == proc[p]
        a == l.plan[l.k].account_id
        last == l.k = Len(l.plan)
    IN  /\ l.pc = "write"
        /\ accounts' = [accounts EXCEPT ![a].balance = l.newBalance]
        /\ applied' = [applied EXCEPT ![a] = @ + l.change]
        /\ proc' = [proc EXCEPT ![p] =
                      LET m == [l EXCEPT !.nApplied = @ + 1, !.change = 0,
                                         !.newBalance = 0]
                      IN IF last THEN Respond(m, "ok")
                         ELSE [m EXCEPT !.k = l.k + 1, !.pc = "save"]]
        /\ reversed' = IF last /\ l.op = "reverse" THEN reversed \cup {l.target}
                       ELSE reversed
        /\ UNCHANGED <<entries, events, ledgerConfig, reqs, edited>>

\* Number.prototype.toFixed(2) of an amount: the sign and the hundredths,
\* halves rounded away from zero
toFixed2(x) == [negative |-> x < 0, hundredths |-> (Abs(x) + 5) \div 10]

\* POST /accounting-entries up to its first storage call: the validation of
\* the entries and the comparison of the totals
ManualCheck(req) ==
    IF Len(req) < 2 THEN "ValidationError"
    ELSE IF \E i \in 1..Len(req) :
               \/ req[i].accountId = 0 \/ req[i].entryType = "" \/ req[i].amount = 0
               \/ req[i].currency = ""
               \/ req[i].entryType \notin {"Debit", "Credit"}
    THEN "ValidationError"
    ELSE IF toFixed2(SumSeq([i \in 1..Len(req) |->
                  IF req[i].entryType = "Debit" THEN req[i].amount ELSE 0]))
            # toFixed2(SumSeq([i \in 1..Len(req) |->
                  IF req[i].entryType = "Credit" THEN req[i].amount ELSE 0]))
    THEN "ImbalanceError"
    ELSE ""

\* POST /accounting-entries
PostEntries(p, req) ==
    /\ Accepts(p)
    /\ reqs' = reqs + 1
    /\ LET err == ManualCheck(req)
           l   == [Idle EXCEPT !.op = "manual", !.group = reqs + 1]
       IN  proc' = [proc EXCEPT ![p] =
                      IF err # "" THEN Respond(l, err)
                      ELSE [l EXCEPT !.k = 1, !.pc = "save",
                                     !.plan = [i \in 1..Len(req) |->
                                        [Item("manual", <<>>, req[i].entryType,
                                              req[i].amount, req[i].currency)
                                         EXCEPT !.account_id = req[i].accountId,
                                                !.description = req[i].description]]]]
    /\ UNCHANGED <<accounts, entries, events, ledgerConfig, applied, reversed, edited>>

\* POST /accounting-entries/:entryGroupId/reverse: LedgerEntry.find and the
\* two checks
Reverse(p, entryGroupId) ==
    /\ Accepts(p)
    /\ reqs' = reqs + 1
    /\ LET originalEntries == FindGroup(entries, entryGroupId)
           l == [Idle EXCEPT !.op = "reverse", !.group = reqs + 1,
                             !.target = entryGroupId,
                             !.late = (entryGroupId \in reversed)]
       IN  proc' = [proc EXCEPT ![p] =
                      IF originalEntries = <<>> THEN Respond(l, "NotFound")
                      ELSE IF \E i \in 1..Len(originalEntries) :
                                 entries[originalEntries[i]].isReversed
                      THEN Respond(l, "AlreadyReversed")
                      ELSE [l EXCEPT !.origs = originalEntries, !.k = 1,
                                     !.pc = "account"]]
    /\ UNCHANGED <<accounts, entries, events, ledgerConfig, applied, reversed, edited>>

\* the reversal's first loop: Account.findOne({account_id}) of original entry
\* l.k, and the reversal entry built from it
ReverseAccount(p) ==
    LET l == proc[p]
        originalEntry == entries[l.origs[l.k]]
        a == originalEntry.account_id
        differs == accounts[a].currency # originalEntry.currency
        exchangeRate == getExchangeRate(ledgerConfig, originalEntry.currency,
                                        accounts[a].currency)
        reversalEntry ==
            [Item("reversal", <<>>,
                  IF originalEntry.entry_type = "Debit" THEN "Credit" ELSE "Debit",
                  IF differs THEN Times(originalEntry.amount, exchangeRate)
                  ELSE originalEntry.amount,
                  IF differs THEN accounts[a].currency ELSE originalEntry.currency)
             EXCEPT !.account_id = a, !.event_id = originalEntry.event_id,
                    !.originalEntryId = l.origs[l.k]]
    IN  /\ l.pc = "account"
        /\ proc' = [proc EXCEPT ![p] =
                      IF a \notin DOMAIN accounts THEN Respond(l, "AccountNotFound")
                      ELSE IF differs /\ exchangeRate = NoRate
                      THEN Respond(l, "ExchangeRateUnavailable")
                      ELSE [l EXCEPT !.plan = Append(l.plan, reversalEntry),
                                     !.pc = "mark",
                                     !.used = IF differs THEN @ \cup {ledgerConfig}
                                              ELSE @]]
        /\ UNCHANGED <<accounts, entries, events, ledgerConfig, reqs, applied, reversed,
                       edited>>

MarkReversedSkipped(p) ==
    LET l == proc[p]
    IN  /\ l.pc = "mark"
        /\ entries' = entries
        /\ proc' = [proc EXCEPT ![p] =
                      IF l.k < Len(l.origs)
                      THEN [l EXCEPT !.k = l.k + 1, !.pc = "account", !.wrote = TRUE]
                      ELSE [l EXCEPT !.k = 1, !.pc = "save", !.wrote = TRUE]]
        /\ UNCHANGED <<accounts, events, ledgerConfig, reqs, applied, reversed, edited>>

MarkReversedToggle(p) ==
    LET l == proc[p]
    IN  /\ l.pc = "mark"
        /\ entries' = [entries EXCEPT ![l.origs[l.k]].isReversed = ~@]
        /\ proc' = [proc EXCEPT ![p] =
                      IF l.k < Len(l.origs)
                      THEN [l EXCEPT !.k = l.k + 1, !.pc = "account", !.wrote = TRUE]
                      ELSE [l EXCEPT !.k = 1, !.pc = "save", !.wrote = TRUE]]
        /\ UNCHANGED <<accounts, events, ledgerConfig, reqs, applied, reversed, edited>>

MarkReversedFirstOnly(p) ==
    LET l == proc[p]
    IN  /\ l.pc = "mark"
        /\ entries' = [entries EXCEPT ![l.origs[1]].isReversed = TRUE]
        /\ proc' = [proc EXCEPT ![p] =
                      IF l.k < Len(l.origs)
                      THEN [l EXCEPT !.k = l.k + 1, !.pc = "account", !.wrote = TRUE]
                      ELSE [l EXCEPT !.k = 1, !.pc = "save", !.wrote = TRUE]]
        /\ UNCHANGED <<accounts, events, ledgerConfig, reqs, applied, reversed, edited>>

\* the reversal's first loop: originalEntry.isReversed = true; originalEntry.save()
MarkReversed(p) ==
    LET l == proc[p]
    IN  /\ l.pc = "mark"
        /\ entries' = [entries EXCEPT ![l.origs[l.k]].isReversed = TRUE]
        /\ proc' = [proc EXCEPT ![p] =
                      IF l.k < Len(l.origs)
                      THEN [l EXCEPT !.k = l.k + 1, !.pc = "account", !.wrote = TRUE]
                      ELSE [l EXCEPT !.k = 1, !.pc = "save", !.wrote = TRUE]]
        /\ UNCHANGED <<accounts, events, ledgerConfig, reqs, applied, reversed, edited>>

\* DELETE /delete-discrepancy-entries:
\* LedgerEntry.deleteMany({description: "Discrepancy adjustment"})
DeleteDiscrepancyEntries ==
    /\ reqs' = reqs + 1
    /\ entries' = [e \in DOMAIN entries |->
                     IF entries[e].description = "Discrepancy adjustment" THEN NoEntry
                     ELSE entries[e]]
    /\ UNCHANGED <<accounts, events, ledgerConfig, proc, applied, reversed, edited>>

\* convertCurrency(amount, fromCurrency, toCurrency): amount * getExchangeRate(
\* fromCurrency, toCurrency), or the error getExchangeRate throws.  The call
\* and its outcome are recorded in a handler slot: the arguments in payload,
\* the value returned as the amount of a single item
convertCurrency(p, amount, fromCurrency, toCurrency) ==
    /\ Accepts(p)
    /\ reqs' = reqs + 1
    /\ LET rate == getExchangeRate(ledgerConfig, fromCurrency, toCurrency)
           l    == [Idle EXCEPT !.op = "convert",
                                !.payload = [NoPayload EXCEPT
                                               !.amount = amount,
                                               !.currency = fromCurrency,
                                               !.settlementCurrency = toCurrency]]
       IN  proc' = [proc EXCEPT ![p] =
                      IF rate = NoRate THEN Respond(l, "ExchangeRateUnavailable")
                      ELSE Respond([l EXCEPT !.plan =
                                      << Item("converted", <<>>, "",
                                              Times(amount, rate), toCurrency) >>],
                                   "ok")]
    /\ UNCHANGED <<accounts, entries, events, ledgerConfig, applied, reversed, edited>>

\* validateConfig: the sections a configuration must have; of the five, the
\* request bodies received differ in payment_processing only
validateConfig(config) == config.payment_processing # 0

\* PUT /config: ledgerConfig = newConfig when the body is a valid configuration
PutConfig(newConfig) ==
    /\ reqs' = reqs + 1
    /\ ledgerConfig' = IF validateConfig(newConfig) THEN newConfig ELSE ledgerConfig
    /\ UNCHANGED <<accounts, entries, events, proc, applied, reversed, edited>>

\* PUT /accounts/:accountId: Account.findOneAndUpdate sets the fields of the body
UpdateAccount(a, currency, nature) ==
    /\ a \in DOMAIN accounts
    /\ reqs' = reqs + 1
    /\ accounts' = [accounts EXCEPT ![a].currency = currency, ![a].nature = nature]
    /\ edited' = (edited \/ currency # accounts[a].currency
                         \/ nature # accounts[a].nature)
    /\ UNCHANGED <<entries, events, ledgerConfig, proc, applied, reversed>>

-----------------------------------------------------------------------------
(* Requests *)

Capture(amount, currency, settlementCurrency, merchantId, hasFee, transactionFee) ==
    [type |-> "PaymentCaptured", amount |-> amount, currency |-> currency,
     settlementCurrency |-> settlementCurrency, merchantId |-> merchantId,
     hasFee |-> hasFee, transactionFee |-> transactionFee,
     originalAmount |-> 0, refundAmount |-> 0]

Refund(type, amount, originalAmount, refundAmount, currency, merchantId) ==
    [type |-> type, amount |-> amount, currency |-> currency,
     settlementCurrency |-> "", merchantId |-> merchantId,
     hasFee |-> FALSE, transactionFee |-> 0,
     originalAmount |-> originalAmount, refundAmount |-> refundAmount]

\* the event payloads received
Payloads ==
    { Capture(100000, "USD", "", "M1", TRUE, 2900),
      Capture(100000, "USD", "EUR", "M1", TRUE, 2900),
      Capture(-100000, "USD", "EUR", "M1", TRUE, 2900),
      Capture(100000, "USD", "JPY", "M1", TRUE, 2900),
      Capture(100000, "USD", "", "M1", FALSE, 0),
      Capture(1000, "USD", "", "M1", TRUE, 2900),
      Refund("PaymentRefunded", 50000, 0, 0, "USD", "M1"),
      Refund("PaymentRefunded", 50000, 0, 0, "USD", ""),
      Refund("PaymentPartiallyRefunded", 0, 100000, 50000, "USD", "M1"),
      Refund("PaymentPartiallyRefunded", 0, 100000, 150000, "USD", "M1"),
      Refund("PaymentSettled", 50000, 0, 0, "USD", "M1") }

ManualEntry(accountId, entryType, amount, currency) ==
    [accountId |-> accountId, entryType |-> entryType, amount |-> amount,
     currency |-> currency, description |-> ""]

\* an account id that no account has
UnknownAccount == 99

\* the bodies of POST /accounting-entries received: two entries of 100.000 on
\* accounts that exist (or on one that does not), the second in either
\* currency; two entries of -100.000; totals that differ; a single entry
ManualRequests ==
    { << ManualEntry(ab[1], "Debit", 100000, "USD"),
         ManualEntry(ab[2], "Credit", 100000, c) >> :
         ab \in {x \in (DOMAIN accounts) \X (DOMAIN accounts \cup {UnknownAccount}) :
                   x[1] < x[2]},
         c \in {"USD", "EUR"} }
    \cup
    { << ManualEntry(ab[1], "Debit", -100000, "USD"),
         ManualEntry(ab[2], "Credit", -100000, "USD") >> :
         ab \in {x \in (DOMAIN accounts) \X (DOMAIN accounts) : x[1] < x[2]} }
    \cup
    { << ManualEntry(UnknownAccount, "Debit", 100000, "USD"),
         ManualEntry(UnknownAccount, "Credit", 70000, "USD") >>,
      << ManualEntry(UnknownAccount, "Debit", 100000, "USD") >> }

-----------------------------------------------------------------------------
(* Specification *)

Init ==
    /\ accounts = <<>>
    /\ entries = <<>>
    /\ events = 0
    /\ ledgerConfig = defaultConfig
    /\ proc = [p \in Procs |-> Idle]
    /\ reqs = 0
    /\ applied = <<>>
    /\ reversed = {}
    /\ edited = FALSE

\* the event intake and manual posting paths, up to MaxPostings requests
Next ==
    \/ \E p \in Procs, payload \in Payloads : reqs < MaxPostings /\ PostEvent(p, payload)
    \/ \E p \in Procs, req \in ManualRequests : reqs < MaxPostings /\ PostEntries(p, req)
    \/ \E p \in Procs : Resolve(p)
    \/ \E p \in Procs : Create(p)
    \/ \E p \in Procs : SaveEntry(p)
    \/ \E p \in Procs : FindAccount(p)
    \/ \E p \in Procs : WriteBalance(p)

Spec == Init /\ [][Next]_vars

\* the entry groups a client knows: those of the requests that have responded
Responded ==
    {g \in 1..reqs : \A p \in Procs : proc[p].group = g => proc[p].pc = "done"}

\* one payment is captured in USD, then reversals and account edits arrive,
\* up to MaxReq requests in all; an edit of an account's currency to EUR makes
\* the reversal convert the original amount
NextReversal ==
    \/ \E p \in Procs :
          reqs = 0 /\ PostEvent(p, Capture(100000, "USD", "", "M1", TRUE, 2900))
    \/ \E p \in Procs, g \in Responded : reqs < MaxReq /\ Reverse(p, g)
    \/ \E a \in DOMAIN accounts, c \in {"USD", "EUR"}, n \in {"Debit", "Credit"} :
          reqs < MaxReq /\ UpdateAccount(a, c, n)
    \/ \E p \in Procs : Resolve(p)
    \/ \E p \in Procs : Create(p)
    \/ \E p \in Procs : SaveEntry(p)
    \/ \E p \in Procs : FindAccount(p)
    \/ \E p \in Procs : WriteBalance(p)
    \/ \E p \in Procs : ReverseAccount(p)
    \/ \E p \in Procs : MarkReversed(p)

SpecReversal == Init /\ [][NextReversal]_vars

\* the bodies of POST /accounting-entries received in the manual scenario: a
\* Debit and a Credit on two accounts that exist, of 100.000 each or of
\* 100.004 against 100.000, described as a discrepancy adjustment or not
NotedRequests ==
    { << [ManualEntry(ab[1], "Debit", amt, "USD") EXCEPT !.description = d],
         [ManualEntry(ab[2], "Credit", 100000, "USD") EXCEPT !.description = d] >> :
         ab \in {x \in (DOMAIN accounts) \X (DOMAIN accounts) : x[1] < x[2]},
         amt \in {100000, 100004},
         d \in {"", "Discrepancy adjustment"} }

\* one payment is captured in USD, then manual postings and clean-ups of the
\* discrepancy adjustments arrive, up to MaxReq requests in all
NextManual ==
    \/ \E p \in Procs :
          reqs = 0 /\ PostEvent(p, Capture(100000, "USD", "", "M1", TRUE, 2900))
    \/ \E p \in Procs, req \in NotedRequests : reqs < MaxReq /\ PostEntries(p, req)
    \/ reqs < MaxReq /\ DeleteDiscrepancyEntries
    \/ \E p \in Procs : Resolve(p)
    \/ \E p \in Procs : Create(p)
    \/ \E p \in Procs : SaveEntry(p)
    \/ \E p \in Procs : FindAccount(p)
    \/ \E p \in Procs : WriteBalance(p)

SpecManual == Init /\ [][NextManual]_vars

\* another configuration: EUR at 0.90, FX fees of 0.02 and other names for
\* the two revenue accounts
otherConfig ==
    [ rates   |-> ("USD" :> 100) @@ ("EUR" :> 90),
      fx_fees |-> (<<"USD", "EUR">> :> 2) @@ (<<"EUR", "USD">> :> 2),
      transaction_fees |-> [account_name |-> <<"Fees">>,
                            account_type |-> "Revenue", nature |-> "Credit"],
      fx_fee_account   |-> [account_name |-> <<"FX Fees">>,
                            account_type |-> "Revenue", nature |-> "Credit"],
      payment_processing |-> 30 ]

\* the bodies of PUT /config received: the two configurations, and one
\* without its payment_processing section
ConfigBodies ==
    {defaultConfig, otherConfig, [otherConfig EXCEPT !.payment_processing = 0]}

\* one capture, with or without conversion, and replacements of the
\* configuration before, during and after it, up to MaxReq requests in all
NextConfig ==
    \/ \E p \in Procs, s \in {"", "EUR"} :
          /\ events = 0 /\ reqs < MaxReq
          /\ PostEvent(p, Capture(100000, "USD", s, "M1", TRUE, 2900))
    \/ \E body \in ConfigBodies : reqs < MaxReq /\ PutConfig(body)
    \/ \E p \in Procs : Resolve(p)
    \/ \E p \in Procs : Create(p)
    \/ \E p \in Procs : SaveEntry(p)
    \/ \E p \in Procs : FindAccount(p)
    \/ \E p \in Procs : WriteBalance(p)

SpecConfig == Init /\ [][NextConfig]_vars

\* one payment of 100 USD is captured (97.1 for the merchant), then full
\* refunds of 50 and partial refunds of 50 out of 100 arrive for the same
\* merchant, up to MaxReq requests in all
RefundPayloads ==
    { Refund("PaymentRefunded", 50000, 0, 0, "USD", "M1"),
      Refund("PaymentPartiallyRefunded", 0, 100000, 50000, "USD", "M1") }

NextRefund ==
    \/ \E p \in Procs :
          reqs = 0 /\ PostEvent(p, Capture(100000, "USD", "", "M1", TRUE, 2900))
    \/ \E p \in Procs, payload \in RefundPayloads :
          reqs > 0 /\ reqs < MaxReq /\ PostEvent(p, payload)
    \/ \E p \in Procs : Resolve(p)
    \/ \E p \in Procs : Create(p)
    \/ \E p \in Procs : SaveEntry(p)
    \/ \E p \in Procs : FindAccount(p)
    \/ \E p \in Procs : WriteBalance(p)

SpecRefund == Init /\ [][NextRefund]_vars

\* one payment is captured in USD; once it has been answered, reversals
\* arrive and accounts are moved to JPY, a currency without a rate (the
\* nature is sent unchanged), up to MaxReq requests in all
NextUnrated ==
    \/ \E p \in Procs :
          reqs = 0 /\ PostEvent(p, Capture(100000, "USD", "", "M1", TRUE, 2900))
    \/ \E p \in Procs, g \in Responded : reqs < MaxReq /\ Reverse(p, g)
    \/ \E a \in DOMAIN accounts :
          /\ 1 \in Responded /\ reqs < MaxReq
          /\ UpdateAccount(a, "JPY", accounts[a].nature)
    \/ \E p \in Procs : Resolve(p)
    \/ \E p \in Procs : Create(p)
    \/ \E p \in Procs : SaveEntry(p)
    \/ \E p \in Procs : FindAccount(p)
    \/ \E p \in Procs : WriteBalance(p)
    \/ \E p \in Procs : ReverseAccount(p)
    \/ \E p \in Procs : MarkReversed(p)

SpecUnrated == Init /\ [][NextUnrated]_vars

\* the rate maps the conversions are evaluated under: the default one, EUR
\* at 0.90, EUR absent, and EUR present with rate 0
RateConfigs ==
    { defaultConfig, otherConfig,
      [defaultConfig EXCEPT !.rates = ("USD" :> 100)],
      [defaultConfig EXCEPT !.rates = ("USD" :> 100) @@ ("EUR" :> 0)] }

\* the currencies converted: JPY is in none of the rate maps
Currencies == {"USD", "EUR", "JPY"}

InitRate ==
    /\ accounts = <<>>
    /\ entries = <<>>
    /\ events = 0
    /\ ledgerConfig \in RateConfigs
    /\ proc = [p \in Procs |-> Idle]
    /\ reqs = 0
    /\ applied = <<>>
    /\ reversed = {}
    /\ edited = FALSE

\* conversions of 9.200 and 4.600 between the currencies, up to MaxReq calls
NextRate ==
    \E p \in Procs, amount \in {9200, 4600}, from \in Currencies, to \in Currencies :
        reqs < MaxReq /\ convertCurrency(p, amount, from, to)

SpecRate == InitRate /\ [][NextRate]_vars

-----------------------------------------------------------------------------
(* Properties *)

\* no request handler is in flight
Quiescent == \A p \in Procs : Free(p)

Completed(l) == l.pc = "done" /\ l.result = "ok"

\* the stored entries of a group, by entry id
StoredTotal(g, type) == TotalOf([i \in 1..Len(FindGroup(entries, g)) |->
                                   entries[FindGroup(entries, g)[i]]], type)

\* the number of stored entries of a group
StoredCount(g) == Cardinality({e \in DOMAIN entries : entries[e].entryGroupId = g})

\* C1: the entry set an event posting emits (the proposed entries once the
\* handler is in its save loop, and the stored entries of the group once it
\* has completed) has Debit total = Credit total within the tolerance; a set
\* rejected as unbalanced has no stored entry and no balance update.
C1_EmittedSetBalances ==
    \A p \in Procs :
        LET l == proc[p]
        IN  l.op = "event" =>
              /\ (l.pc \in {"save", "find", "write"} \/ Completed(l)) =>
                    Abs(TotalOf(l.plan, "Debit") - TotalOf(l.plan, "Credit")) <= Tolerance
              /\ Completed(l) =>
                    /\ StoredCount(l.group) = Len(l.plan)
                    /\ Abs(StoredTotal(l.group, "Debit") - StoredTotal(l.group, "Credit"))
                          <= Tolerance
              /\ (l.pc = "done" /\ l.result = "ImbalanceError") =>
                    StoredCount(l.group) = 0 /\ l.nApplied = 0

\* a PaymentCaptured with conversion has completed: four entries are stored
C1_Witness ==
    \E p \in Procs :
        /\ proc[p].kind = "PaymentCaptured" /\ Completed(proc[p])
        /\ StoredCount(proc[p].group) = 4

\* C2: once a posting request has responded, either nothing of its group is
\* stored and no balance reflects it, or every proposed entry is stored and
\* every one of them has been applied to its account's balance.
C2_GroupAtomicity ==
    \A p \in Procs :
        LET l == proc[p]
        IN  (l.pc = "done" /\ l.op \in {"event", "manual"}) =>
              \/ StoredCount(l.group) = 0 /\ l.nApplied = 0
              \/ StoredCount(l.group) = Len(l.plan) /\ l.nApplied = Len(l.plan)

\* C3: once every request has completed, each account's balance is its
\* initial balance (0) plus the sum of the signed amounts applied to it.
C3_NoLostUpdate ==
    Quiescent => \A a \in DOMAIN accounts : accounts[a].balance = applied[a]

\* C4: no original entry has two stored reversal entries (two reversal
\* requests for one group never both persist a reversal group).
C4_AtMostOneReversal ==
    \A e \in DOMAIN entries :
        Cardinality({r \in DOMAIN entries : entries[r].isReversal
                                            /\ entries[r].originalEntryId = e}) <= 1

\* C5: once a reversal of a group has completed with success, every original
\* entry of the group has isReversed = true, and a reversal request for the
\* group that arrives afterwards responds "already reversed" at once, having
\* stored no entry, marked no entry and changed no balance.
C5_SecondReversalRejected ==
    /\ \A g \in reversed : \A e \in DOMAIN entries :
          entries[e].entryGroupId = g => entries[e].isReversed
    /\ \A p \in Procs :
          LET l == proc[p]
          IN  (l.op = "reverse" /\ l.late) =>
                /\ l.pc = "done" /\ l.result = "AlreadyReversed"
                /\ ~l.wrote /\ l.nApplied = 0 /\ StoredCount(l.group) = 0

\* a reversal request has arrived after a successful reversal of its group
C5_Witness ==
    \E p \in Procs : proc[p].op = "reverse" /\ proc[p].late /\ proc[p].target \in reversed

\* C6: a completed reversal has stored, in its own new group, one entry per
\* original entry, in order: same account, entry type flipped, isReversal
\* set, originalEntryId the original's id, and the original's amount, times
\* rates[to] / rates[from] exactly when the entry was moved to another currency.
C6_ReversalMirrorsOriginals ==
    \A p \in Procs :
        LET l  == proc[p]
            rs == FindGroup(entries, l.group)
            os == FindGroup(entries, l.target)
        IN  (l.op = "reverse" /\ Completed(l)) =>
              /\ l.group # l.target
              /\ Len(rs) = Len(os)
              /\ \A i \in 1..Len(rs) :
                    LET r == entries[rs[i]]
                        o == entries[os[i]]
                    IN  /\ r.account_id = o.account_id
                        /\ r.entry_type = (IF o.entry_type = "Debit" THEN "Credit"
                                           ELSE "Debit")
                        /\ o.entry_type \in {"Debit", "Credit"}
                        /\ r.isReversal
                        /\ r.originalEntryId = os[i]
                        /\ r.amount = (IF r.currency = o.currency THEN o.amount
                                       ELSE (o.amount * defaultConfig.rates[r.currency])
                                               \div defaultConfig.rates[o.currency])

\* a reversal has completed in which an entry was converted
C6_Witness ==
    \E p \in Procs :
        /\ proc[p].op = "reverse" /\ Completed(proc[p])
        /\ \E r \in DOMAIN entries :
              /\ entries[r].entryGroupId = proc[p].group
              /\ entries[r].currency # entries[entries[r].originalEntryId].currency
              /\ entries[r].amount # entries[entries[r].originalEntryId].amount

\* C7: no two accounts have the same (account_name, currency).
C7_OneAccountPerNameAndCurrency ==
    \A a, b \in DOMAIN accounts :
        (accounts[a].account_name = accounts[b].account_name
           /\ accounts[a].currency = accounts[b].currency) => a = b

\* C8: with no request in flight, each account's balance is the sum of the
\* signed contributions of the stored entries that name the account.
C8_BalanceIsSumOfEntries ==
    Quiescent =>
        \A a \in DOMAIN accounts :
            accounts[a].balance =
                SumSeq([e \in 1..Len(entries) |->
                          IF entries[e].account_id = a
                          THEN balanceChange(accounts[a].nature, entries[e].entry_type,
                                             entries[e].amount)
                          ELSE 0])

\* C9: an event intake that fails with a validation or business-rule error
\* has written nothing: no event record, no account, no entry, no balance.
C9_RejectedEventWritesNothing ==
    \A p \in Procs :
        LET l == proc[p]
        IN  (l.op = "event" /\ l.pc = "done"
             /\ l.result \in {"ValidationError", "UnsupportedEventType",
                              "ExchangeRateUnavailable", "InsufficientFunds",
                              "RefundExceedsOriginal", "ImbalanceError"})
            => ~l.wrote

\* C10: a PaymentRefunded whose amount is greater than the balance of the
\* Merchant Payable account it looked up responds "insufficient funds", with
\* no entry of its group stored and no balance update; one that passes the
\* check saw a balance of at least the amount and proposes exactly a Debit on
\* that Merchant Payable account and a Credit on Cash, both for the amount.
C10_RefundChecksFunds ==
    \A p \in Procs :
        LET l == proc[p]
            checked == \/ l.pc \in {"resolve", "create"} /\ l.k = 2
                       \/ l.pc \in {"save", "find", "write"}
                       \/ Completed(l)
        IN  l.kind = "PaymentRefunded" =>
              /\ (l.pc = "done" /\ l.result = "InsufficientFunds") =>
                    /\ l.seen < l.payload.amount
                    /\ StoredCount(l.group) = 0 /\ l.nApplied = 0
              /\ checked =>
                    /\ l.seen >= l.payload.amount
                    /\ Len(l.plan) = 2
                    /\ l.plan[1].entry_type = "Debit" /\ l.plan[2].entry_type = "Credit"
                    /\ l.plan[1].amount = l.payload.amount
                    /\ l.plan[2].amount = l.payload.amount
                    /\ accounts[l.plan[1].account_id].account_name
                          = <<"Merchant Payable", l.payload.merchantId>>
                    /\ accounts[l.plan[1].account_id].currency = l.payload.currency
              /\ Completed(l) =>
                    /\ StoredCount(l.group) = 2
                    /\ accounts[l.plan[2].account_id].account_name
                          = <<"Cash", l.payload.currency>>

\* a PaymentRefunded has completed against a sufficient balance
C10_Witness ==
    \E p \in Procs :
        /\ proc[p].kind = "PaymentRefunded" /\ Completed(proc[p])
        /\ proc[p].seen >= proc[p].payload.amount /\ proc[p].payload.amount > 0

\* C11: a PaymentPartiallyRefunded whose refundAmount is greater than its
\* originalAmount responds "refund exceeds original" in the step that receives
\* it, before any account lookup: that step leaves every account (and so every
\* balance) and every ledger entry as they were, and the handler makes no
\* further step.
C11_ExcessRefundTouchesNothing ==
    [][\A p \in Procs :
          LET l == proc'[p]
          IN  (l # proc[p] /\ l.kind = "PaymentPartiallyRefunded"
               /\ l.payload.originalAmount # 0 /\ l.payload.currency # ""
               /\ l.payload.merchantId # ""
               /\ l.payload.refundAmount > l.payload.originalAmount)
              => /\ Free(p)
                 /\ l.pc = "done" /\ l.result = "RefundExceedsOriginal"
                 /\ accounts' = accounts /\ entries' = entries /\ applied' = applied
                 /\ l.nApplied = 0 /\ StoredCount(l.group) = 0]_vars

\* a partial refund of 150 against an original of 100 has been answered, after
\* a capture had created accounts
C11_Witness ==
    \E p \in Procs :
        /\ proc[p].kind = "PaymentPartiallyRefunded"
        /\ proc[p].payload.refundAmount > proc[p].payload.originalAmount
        /\ proc[p].result = "RefundExceedsOriginal"
        /\ Len(accounts) > 0

\* C12: the entries a PaymentCaptured proposes, with r = rates[settlement] /
\* rates[source] (1 when the currencies are equal), A = amount * r,
\* F = transactionFee * r and X = amount * fx_fees[source][settlement] * r
\* (0 when the currencies are equal): Debit Cash A, Credit Merchant Payable
\* A - F - X, Credit Transaction Fee Revenue F, and Credit FX Fee Revenue X
\* exactly when X > 0, all in the settlement currency.
C12_CaptureEntries ==
    \A p \in Procs :
        LET l   == proc[p]
            pl  == l.payload
            src == pl.currency
            dst == IF pl.settlementCurrency = "" THEN src ELSE pl.settlementCurrency
            rn  == IF src = dst THEN 1 ELSE ledgerConfig.rates[dst]
            rd  == IF src = dst THEN 1 ELSE ledgerConfig.rates[src]
            fr  == IF src # dst /\ <<src, dst>> \in DOMAIN ledgerConfig.fx_fees
                   THEN ledgerConfig.fx_fees[<<src, dst>>] ELSE 0
            A   == (pl.amount * rn) \div rd
            F   == (pl.transactionFee * rn) \div rd
            X   == (pl.amount * fr * rn) \div (100 * rd)
            expected == << <<"Debit", A, <<"Cash", dst>> >>,
                           <<"Credit", A - F - X, <<"Merchant Payable", pl.merchantId>> >>,
                           <<"Credit", F, <<"Transaction Fee Revenue">> >> >>
                        \o (IF X > 0 THEN << <<"Credit", X, <<"FX Fee Revenue">> >> >>
                            ELSE <<>>)
        IN  (l.kind = "PaymentCaptured" /\ l.plan # <<>>) =>
              /\ Len(l.plan) = Len(expected)
              /\ \A i \in 1..Len(l.plan) :
                    /\ l.plan[i].entry_type = expected[i][1]
                    /\ l.plan[i].amount = expected[i][2]
                    /\ l.plan[i].currency = dst
                    /\ l.plan[i].account_id # 0 =>
                          /\ accounts[l.plan[i].account_id].account_name = expected[i][3]
                          /\ accounts[l.plan[i].account_id].currency = dst

\* the capture of 100 USD settled in EUR at 0.92 with fee 2.9 and FX fee rate
\* 0.01 has completed: 92 / 88.412 / 2.668 / 0.92 are stored
C12_Witness ==
    \E p \in Procs :
        LET es == FindGroup(entries, proc[p].group)
        IN  /\ proc[p].kind = "PaymentCaptured" /\ Completed(proc[p])
            /\ Len(es) = 4
            /\ entries[es[1]].amount = 92000 /\ entries[es[2]].amount = 88412
            /\ entries[es[3]].amount = 2668 /\ entries[es[4]].amount = 920

\* C13: every stored ledger entry has amount >= 0.
C13_AmountNonNegative ==
    \A e \in DOMAIN entries : entries[e].amount >= 0

\* C14: an updateAccountBalance call on an account whose currency is the
\* entry's computes, from the account document it read, the balance plus the
\* amount when the account's nature is the entry type and the balance minus
\* the amount otherwise, and saves exactly that balance; when the stored
\* balance is still the one it read, the stored balance changes by that
\* signed amount.
C14_SignConvention ==
    [][\A p \in Procs :
          LET l      == proc[p]
              item   == l.plan[l.k]
              a      == item.account_id
              signed == IF accounts[a].nature = item.entry_type THEN item.amount
                        ELSE -item.amount
          IN  /\ (l.pc = "find" /\ proc'[p].pc = "write") =>
                    /\ accounts[a].currency = item.currency
                    /\ accounts[a].nature \in {"Debit", "Credit"}
                    /\ item.entry_type \in {"Debit", "Credit"}
                    /\ proc'[p].newBalance = accounts[a].balance + signed
              /\ (l.pc = "write" /\ proc'[p] # l) =>
                    /\ accounts'[a].balance = l.newBalance
                    /\ accounts[a].balance + l.change = l.newBalance =>
                          accounts'[a].balance = accounts[a].balance + signed]_vars

\* a Debit is being applied to an account of Credit nature (a refund on
\* Merchant Payable): the balance decreases by the amount
C14_Witness ==
    \E p \in Procs :
        /\ proc[p].pc = "write"
        /\ proc[p].plan[proc[p].k].amount > 0
        /\ proc[p].plan[proc[p].k].entry_type = "Debit"
        /\ accounts[proc[p].plan[proc[p].k].account_id].nature = "Credit"
        /\ proc[p].change = -proc[p].plan[proc[p].k].amount

\* C15: an updateAccountBalance call that finds the account with a currency
\* other than the entry's fails with "currency mismatch" in that step, and the
\* step changes no account: no balance is written and nothing is converted.
C15_CurrencyMismatchRejected ==
    [][\A p \in Procs :
          LET l    == proc[p]
              item == l.plan[l.k]
              a    == item.account_id
          IN  (l.pc = "find" /\ proc'[p] # l /\ a \in DOMAIN accounts
               /\ accounts[a].currency # item.currency)
              => /\ proc'[p].pc = "done" /\ proc'[p].result = "CurrencyMismatch"
                 /\ proc'[p].nApplied = l.nApplied
                 /\ accounts' = accounts /\ applied' = applied]_vars

\* a posting of a USD entry on a EUR account (or the reverse) has failed
C15_Witness ==
    \E p \in Procs :
        /\ proc[p].pc = "done" /\ proc[p].result = "CurrencyMismatch"
        /\ accounts[proc[p].plan[proc[p].k].account_id].currency
              # proc[p].plan[proc[p].k].currency

\* C16: a step of updateAccountBalance(accountId, ...) leaves every other
\* account document as it was, creates and removes no account, and leaves the
\* ledger entries as they were.
C16_UpdateFrame ==
    [][\A p \in Procs :
          LET l == proc[p]
              a == l.plan[l.k].account_id
          IN  (l.pc \in {"find", "write"} /\ proc'[p] # l)
              => /\ entries' = entries
                 /\ DOMAIN accounts' = DOMAIN accounts
                 /\ \A b \in DOMAIN accounts : b # a => accounts'[b] = accounts[b]]_vars

\* a balance has been written while another account had a balance of its own
C16_Witness ==
    \E p \in Procs :
        /\ proc[p].nApplied > 0 /\ Len(entries) > 0
        /\ \E a, b \in DOMAIN accounts :
              a # b /\ accounts[a].balance # 0 /\ accounts[b].balance # 0
                    /\ accounts[a].balance # accounts[b].balance

\* C17: the stored group of a completed reversal of a group that balanced
\* has Debit total = Credit total within the tolerance.
C17_ReversalGroupBalances ==
    \A p \in Procs :
        LET l == proc[p]
        IN  (l.op = "reverse" /\ Completed(l)
             /\ Abs(StoredTotal(l.target, "Debit") - StoredTotal(l.target, "Credit"))
                   <= Tolerance)
            => Abs(StoredTotal(l.group, "Debit") - StoredTotal(l.group, "Credit"))
                 <= Tolerance

\* the signed contribution to account a of the stored entries selected by keep
Contribution(a, keep(_)) ==
    SumSeq([e \in 1..Len(entries) |->
              IF entries[e].account_id = a /\ keep(e)
              THEN (IF accounts[a].nature = entries[e].entry_type
                    THEN entries[e].amount ELSE -entries[e].amount)
              ELSE 0])

\* C18: when no edit has changed an account's nature or currency, a completed
\* reversal of a group leaves the originals and as many reversal entries
\* stored, and once no request is in flight the group and its reversal have
\* no net effect: every balance is what the stored entries other than the
\* group's and their reversal entries make it.
C18_ReversalCancels ==
    \A p \in Procs :
        LET l == proc[p]
            other(e) == /\ entries[e].entryGroupId # l.target
                        /\ ~(entries[e].isReversal
                             /\ entries[entries[e].originalEntryId].entryGroupId
                                   = l.target)
        IN  (l.op = "reverse" /\ Completed(l) /\ ~edited) =>
              /\ StoredCount(l.target) = Len(l.plan)
              /\ StoredCount(l.group) = Len(l.plan)
              /\ Quiescent =>
                    \A a \in DOMAIN accounts :
                        accounts[a].balance = Contribution(a, other)

\* C19: whenever a reversal entry is stored, the original entry it names
\* has isReversed = true.
C19_MarkedBeforeInverse ==
    \A r \in DOMAIN entries :
        entries[r].isReversal =>
            /\ entries[r].originalEntryId \in DOMAIN entries
            /\ entries[entries[r].originalEntryId].isReversed

\* a reversal is in its save loop with part of its inverse group stored
C19_Witness ==
    \E p \in Procs :
        /\ proc[p].op = "reverse" /\ proc[p].pc \in {"save", "find", "write"}
        /\ StoredCount(proc[p].group) > 0
        /\ StoredCount(proc[p].group) < Len(proc[p].plan)

\* C20: an entry is stored with isReversed = false; a step changes the flag
\* of a stored entry only from false to true, and only the marking step of a
\* reversal of the entry's group does.
C20_IsReversedMonotone ==
    [][/\ \A e \in DOMAIN entries' \ DOMAIN entries : ~entries'[e].isReversed
       /\ \A e \in DOMAIN entries \cap DOMAIN entries' :
             /\ entries[e].isReversed => entries'[e].isReversed
             /\ entries'[e].isReversed # entries[e].isReversed =>
                   \E p \in Procs :
                       /\ proc[p].op = "reverse" /\ proc[p].pc = "mark"
                       /\ proc'[p] # proc[p]
                       /\ proc[p].target = entries[e].entryGroupId
                       /\ proc[p].origs[proc[p].k] = e]_vars

\* a second reversal of a group marks an entry that the first has marked
C20_Witness ==
    \E p \in Procs :
        /\ proc[p].op = "reverse" /\ proc[p].pc = "mark"
        /\ entries[proc[p].origs[proc[p].k]].isReversed

\* C21: a stored entry stays stored, with the account_id, entry_type,
\* amount, currency and entryGroupId it was stored with.
C21_AppendOnly ==
    [][\A e \in DOMAIN entries :
          entries[e] # NoEntry =>
            /\ e \in DOMAIN entries'
            /\ entries'[e] # NoEntry
            /\ entries'[e].account_id = entries[e].account_id
            /\ entries'[e].entry_type = entries[e].entry_type
            /\ entries'[e].amount = entries[e].amount
            /\ entries'[e].currency = entries[e].currency
            /\ entries'[e].entryGroupId = entries[e].entryGroupId]_vars

\* C24: the group a completed manual posting has stored has Debit total =
\* Credit total within the tolerance, and a manual posting rejected as
\* unbalanced has written nothing.
C24_ManualGroupBalances ==
    \A p \in Procs :
        LET l == proc[p]
        IN  l.op = "manual" =>
              /\ Completed(l) =>
                    Abs(TotalOf(l.plan, "Debit") - TotalOf(l.plan, "Credit")) <= Tolerance
              /\ (l.pc = "done" /\ l.result = "ImbalanceError") =>
                    ~l.wrote /\ l.nApplied = 0 /\ StoredCount(l.group) = 0

\* C22: every rate, FX fee and account default a handler has used comes
\* from one configuration snapshot.
C22_OneSnapshot ==
    \A p \in Procs : Cardinality(proc[p].used) <= 1

\* the value a conversion returned
Converted(l) == l.plan[1].amount

\* C23 as stated: getExchangeRate(from, to) is 1 when from = to, is
\* rates[to] / rates[from] when both currencies are in the rate map (the
\* quotient being defined, rates[from] # 0), and fails with "exchange rate
\* unavailable" whenever from or to is absent from the rate map.
C23_RateAsStated ==
    \A p \in Procs :
        LET l     == proc[p]
            from  == l.payload.currency
            to    == l.payload.settlementCurrency
            rates == ledgerConfig.rates
        IN  (l.op = "convert" /\ l.pc = "done") =>
              /\ from = to => (l.result = "ok" /\ Converted(l) = l.payload.amount)
              /\ (from \in DOMAIN rates /\ to \in DOMAIN rates /\ rates[from] # 0) =>
                    /\ l.result = "ok"
                    /\ Converted(l) = (l.payload.amount * rates[to]) \div rates[from]
              /\ (from \notin DOMAIN rates \/ to \notin DOMAIN rates) =>
                    l.result = "ExchangeRateUnavailable"

\* C23 amended: getExchangeRate(from, to) is 1 when from = to; when from # to
\* it is rates[to] / rates[from] if both currencies are in the rate map with
\* a rate other than 0, and it fails with "exchange rate unavailable" if
\* either is absent from the map or has the rate 0.
C23_Rate ==
    \A p \in Procs :
        LET l     == proc[p]
            from  == l.payload.currency
            to    == l.payload.settlementCurrency
            rates == ledgerConfig.rates
            has(c) == c \in DOMAIN rates /\ rates[c] # 0
        IN  (l.op = "convert" /\ l.pc = "done") =>
              /\ from = to => (l.result = "ok" /\ Converted(l) = l.payload.amount)
              /\ (from # to /\ has(from) /\ has(to)) =>
                    /\ l.result = "ok"
                    /\ Converted(l) = (l.payload.amount * rates[to]) \div rates[from]
              /\ (from # to /\ ~(has(from) /\ has(to))) =>
                    l.result = "ExchangeRateUnavailable"

\* 9.200 EUR have been converted to 10.000 USD at 1 / 0.92, and in another
\* slot a conversion of a currency without a rate has failed
C23_Witness ==
    /\ \E p \in Procs :
          /\ proc[p].op = "convert" /\ proc[p].result = "ok"
          /\ proc[p].payload.currency = "EUR"
          /\ proc[p].payload.settlementCurrency = "USD"
          /\ proc[p].payload.amount = 9200 /\ Converted(proc[p]) = 10000
    /\ reqs > 1

\* every request so far was an event posting that completed: the requests
\* whose handlers are still known have answered with success, every group
\* number has a stored group that balances, and every stored entry is
\* that of an event
OnlyCompletedEvents ==
    /\ Quiescent
    /\ \A p \in Procs : proc[p].op # "idle" => (proc[p].op = "event" /\ Completed(proc[p]))
    /\ \A g \in 1..reqs :
          /\ StoredCount(g) > 0
          /\ Abs(StoredTotal(g, "Debit") - StoredTotal(g, "Credit")) <= Tolerance
    /\ \A e \in DOMAIN entries : entries[e].event_id # 0

\* the sum of the balances of the accounts of a nature in a currency
NatureTotal(nature, currency) ==
    SumSeq([a \in 1..Len(accounts) |->
              IF accounts[a].nature = nature /\ accounts[a].currency = currency
              THEN accounts[a].balance ELSE 0])

\* C25: trial balance.  With no operation in progress and only successfully
\* completed captures and refunds behind (no account edits), in each currency
\* the balances of the Debit-nature accounts add up to those of the
\* Credit-nature accounts, within the tolerance accumulated per group.
C25_TrialBalance ==
    (OnlyCompletedEvents /\ ~edited) =>
        \A c \in {accounts[a].currency : a \in DOMAIN accounts} :
            Abs(NatureTotal("Debit", c) - NatureTotal("Credit", c)) <= reqs * Tolerance

\* C26: refunds never overdraw a merchant.  The balance of a Merchant Payable
\* account, 0 when the account is created, is never negative under any
\* interleaving of PaymentRefunded and PaymentPartiallyRefunded events.
C26_NeverOverdrawn ==
    \A a \in DOMAIN accounts :
        accounts[a].account_name[1] = "Merchant Payable" => accounts[a].balance >= 0

\* the stored reversal entries that name original entry e
InversesOf(e) ==
    {r \in DOMAIN entries : entries[r].isReversal /\ entries[r].originalEntryId = e}

\* the balance update of stored entry r has been made: a reversal handler that
\* stored r has made at least as many updates as it had stored entries up to r
EffectApplied(r) ==
    \A q \in Procs :
        (proc[q].op = "reverse" /\ proc[q].group = entries[r].entryGroupId) =>
            proc[q].nApplied >=
                Cardinality({x \in DOMAIN entries :
                               entries[x].entryGroupId = entries[r].entryGroupId /\ x <= r})

\* C27: no half-reversed group.  When a reversal request has finished, with
\* success or with an error, and no other reversal of the group is in
\* progress, either no original entry of the group has isReversed = true, or
\* every original entry has it and has exactly one stored reversal entry
\* whose effect has been applied to its account's balance.
C27_NoHalfReversedGroup ==
    \A p \in Procs :
        LET l  == proc[p]
            os == {e \in DOMAIN entries : entries[e].entryGroupId = l.target}
        IN  (/\ l.op = "reverse" /\ l.pc = "done"
             /\ \A q \in Procs : (proc[q].op = "reverse" /\ proc[q].target = l.target)
                                     => proc[q].pc = "done") =>
              \/ \A e \in os : ~entries[e].isReversed
              \/ \A e \in os :
                    /\ entries[e].isReversed
                    /\ Cardinality(InversesOf(e)) = 1
                    /\ \A r \in InversesOf(e) : EffectApplied(r)

====
